---- MODULE Spec2Model ----
(***************************************************************************)
(* Model of app.py, the Streamlit "Personalized Workout & Diet Planner".   *)
(*                                                                         *)
(* Streamlit executes the whole script once per user interaction.  A state *)
(* of the model is the state after one complete execution: the widget      *)
(* values the run read, st.session_state, and the page the run rendered.   *)
(*                                                                         *)
(* Representation of values:                                               *)
(*   - a BMI is an integer number of hundredths (22.49 is 2249);           *)
(*   - weights of the progress chart are integer tenths of a kilogram;     *)
(*   - a text is a sequence of tokens: the token "\n" is one newline       *)
(*     character, every other token is a run of characters without a       *)
(*     newline.  Non-ASCII characters of the source's literals are written *)
(*     in ASCII (an en dash as "-", a multiplication sign as "x", emoji    *)
(*     dropped).                                                           *)
(***************************************************************************)
EXTENDS Integers, Sequences, FiniteSets, TLC

VARIABLES
    planner_name, age, gender, height, weight,  \* sidebar widget values
    goal, diet_type, budget, equipment,
    session_state,   \* st.session_state: a function from keys to values
    exists,          \* the files present in the Images directory
    page,            \* the elements rendered by the last run, in order
    event,           \* what triggered the last run
    runs,            \* number of script runs so far
    call, ret        \* a single function call under test, and its result

widgets == <<planner_name, age, gender, height, weight,
             goal, diet_type, budget, equipment>>
vars == <<planner_name, age, gender, height, weight, goal, diet_type,
          budget, equipment, session_state, exists, page, event, runs,
          call, ret>>

----------------------------------------------------------------------------
(* Bounds of the model *)

\* script runs explored in the sampled session specification
MaxRuns == 4
\* script runs explored in the full-range height/weight specification
MaxFormRuns == 3
\* length, in tokens, of the texts handed to generate_pdf on its own
MaxLen == 6
\* number of equipment options selected at once
MaxEquip == 2
\* largest BMI, in units of one BMI point, handed to bmi_category on its own
MaxBmi == 105

----------------------------------------------------------------------------
(* Sidebar widgets: ranges, defaults and options, lines 114-130 *)

MinAge == 10
MaxAge == 80
DefaultAge == 21
MinHeight == 120
MaxHeight == 220
DefaultHeight == 170
MinWeight == 30
MaxWeight == 150
DefaultWeight == 65

Genders == <<"Male", "Female">>
Goals == <<"Weight Loss", "Muscle Gain", "Maintain Fitness">>
DietTypes == <<"Vegetarian", "Non-Vegetarian">>
Budgets == <<"Low", "Medium", "High">>
EquipmentOptions == <<"Bodyweight", "Dumbbells", "Resistance Bands", "Gym Access">>

Range(s) == {s[i] : i \in DOMAIN s}

\* variant: a height input without its minimum
HeightValuesFromZero == 0..MaxHeight

\* the values a number_input can deliver

HeightValues == MinHeight..MaxHeight
WeightValues == MinWeight..MaxWeight
AgeValues == MinAge..MaxAge

----------------------------------------------------------------------------
(* Text helpers *)

NL == "\n"

\* str.lower() on the option labels that reach it
Lower(s) ==
    CASE s = "Male" -> "male"
      [] s = "Female" -> "female"
      [] s = "Weight Loss" -> "weight loss"
      [] s = "Muscle Gain" -> "muscle gain"
      [] s = "Maintain Fitness" -> "maintain fitness"
      [] s = "Vegetarian" -> "vegetarian"
      [] s = "Non-Vegetarian" -> "non-vegetarian"
      [] s = "Low" -> "low"
      [] s = "Medium" -> "medium"
      [] s = "High" -> "high"

\* str() of a float that holds a two-decimal value: 22.49, 22.5, 22.0, 18.05
FormatFloat(b) ==
    LET ip == b \div 100
        fp == b % 100
    IN  ToString(ip) \o "." \o
        (IF fp % 10 = 0 THEN ToString(fp \div 10)
         ELSE IF fp < 10 THEN "0" \o ToString(fp)
         ELSE ToString(fp))

\* ", ".join(items)
RECURSIVE JoinComma(_)
JoinComma(items) ==
    IF Len(items) = 0 THEN ""
    ELSE IF Len(items) = 1 THEN items[1]
    ELSE items[1] \o ", " \o JoinComma(Tail(items))

\* the lines of a text joined by single newlines
RECURSIVE JoinLines(_)
JoinLines(lines) ==
    IF Len(lines) = 0 THEN <<>>
    ELSE IF Len(lines) = 1 THEN lines[1]
    ELSE lines[1] \o <<NL>> \o JoinLines(Tail(lines))

\* str.strip(): leading and trailing whitespace removed
RECURSIVE Strip(_)
Strip(text) ==
    IF Len(text) = 0 THEN text
    ELSE IF text[1] = NL THEN Strip(Tail(text))
    ELSE IF text[Len(text)] = NL THEN Strip(SubSeq(text, 1, Len(text) - 1))
    ELSE text

\* index of the first "\n\n" at or after position i, 0 when there is none
RECURSIVE FindBlank(_, _)
FindBlank(text, i) ==
    IF i >= Len(text) THEN 0
    ELSE IF text[i] = NL /\ text[i + 1] = NL THEN i
    ELSE FindBlank(text, i + 1)

\* variant: a split on "\n" instead of "\n\n"
RECURSIVE SplitSingleNewline(_)
SplitSingleNewline(text) ==
    LET S == {i \in 1..Len(text) : text[i] = NL}
    IN  IF S = {} THEN <<text>>
        ELSE LET j == CHOOSE i \in S : \A k \in S : i <= k
             IN  <<SubSeq(text, 1, j - 1)>>
                 \o SplitSingleNewline(SubSeq(text, j + 1, Len(text)))

\* text.split("\n\n")
RECURSIVE Split(_)
Split(text) ==
    LET j == FindBlank(text, 1)
    IN  IF j = 0 THEN <<text>>
        ELSE <<SubSeq(text, 1, j - 1)>> \o Split(SubSeq(text, j + 2, Len(text)))

----------------------------------------------------------------------------
(* BMI functions, lines 18-30 *)

\* calculate_bmi raises ZeroDivisionError exactly when h * h is 0
DivisionByZero(height_cm) == height_cm = 0

\* variant: the weight multiplied by the squared height
calculate_bmi_mult(w, height_cm) == (w * height_cm * height_cm) \div 100

\* round(weight / (h * h), 2) with h = height_cm / 100, in hundredths.  The
\* quotient is exactly halfway between two hundredths for eight pairs of
\* the form's range (height 160 or 128); the floating-point value of h * h
\* lies just above the exact square there, so the quotient lies below the
\* half and round() goes down.

calculate_bmi(w, height_cm) ==
    LET num == w * 1000000
        den == height_cm * height_cm
        q == num \div den
        r == num % den
    IN  IF 2 * r > den THEN q + 1 ELSE q

\* variant: the thresholds compared with <=
bmi_category_inclusive(b) ==
    IF b <= 1850 THEN "Underweight"
    ELSE IF b <= 2500 THEN "Normal"
    ELSE IF b <= 3000 THEN "Overweight"
    ELSE "Obese"

\* lines 22-30, the thresholds 18.5, 25 and 30 in hundredths
bmi_category(b) ==
    IF b < 1850 THEN "Underweight"
    ELSE IF b < 2500 THEN "Normal"
    ELSE IF b < 3000 THEN "Overweight"
    ELSE "Obese"

----------------------------------------------------------------------------
(* PDF function, lines 33-40 *)

\* Paragraph(p, styles["Normal"]): a paragraph block holding the text p
Paragraph(p, style) == [text |-> p, style |-> style]

\* the number of tokens of a text, standing for the bytes build() writes
RECURSIVE Size(_)
Size(content) ==
    IF Len(content) = 0 THEN 1
    ELSE 1 + Len(content[1].text) + Size(Tail(content))

\* variant: one paragraph per line
generate_pdf_single_newline(text) ==
    LET segs == SplitSingleNewline(text)
        content == [i \in 1..Len(segs) |-> Paragraph(segs[i], "Normal")]
    IN  [content |-> content, pos |-> 0]

\* buffer = BytesIO(); doc.build(content) writes the document into it and
\* leaves the position at the end; buffer.seek(0) rewinds it
generate_pdf(text) ==
    LET segs == Split(text)
        content == [i \in 1..Len(segs) |-> Paragraph(segs[i], "Normal")]
        built == [content |-> content, pos |-> Size(content)]
    IN  [built EXCEPT !.pos = 0]

----------------------------------------------------------------------------
(* Dynamic plan generator, lines 43-107 *)

\* equipment_text, line 45
equipment_text(equip) ==
    IF Len(equip) > 0 THEN JoinComma(equip) ELSE "bodyweight exercises only"

\* workout_focus, lines 47-51
workout_focus(gl) ==
    CASE gl = "Weight Loss" ->
           "fat burning, high repetitions, and cardiovascular exercises"
      [] gl = "Muscle Gain" ->
           "progressive overload strength training with proper recovery"
      [] gl = "Maintain Fitness" ->
           "balanced strength, flexibility, and endurance training"

\* diet_focus, lines 53-57
diet_focus(gl) ==
    CASE gl = "Weight Loss" -> "controlled calories with high fiber and protein"
      [] gl = "Muscle Gain" -> "protein-rich meals with complex carbohydrates"
      [] gl = "Maintain Fitness" ->
           "balanced nutrition with adequate vitamins and minerals"

\* variant: the two branches of line 90 exchanged
BreakfastProteinSwapped(dt) ==
    IF dt = "Vegetarian" THEN "boiled eggs" ELSE "paneer or tofu"

\* the conditional food substitutions of lines 90, 92 and 94

BreakfastProtein(dt) ==
    IF dt = "Vegetarian" THEN "paneer or tofu" ELSE "boiled eggs"

LunchProtein(dt) ==
    IF dt = "Vegetarian" THEN "paneer curry" ELSE "grilled chicken"

DinnerProtein(dt) ==
    IF dt = "Vegetarian" THEN "paneer bhurji" ELSE "egg curry"

DietHeader == "<b>DIET PLAN (INDIAN & BUDGET FRIENDLY)</b>"
HydrationHeader == "<b>HYDRATION & LIFESTYLE</b>"

\* the lines of the f-string of lines 59-105, each a sequence of tokens; an
\* empty sequence is an empty line
PlanLines(name, a, g, b, cat, gl, dt, bud, equip, cal) ==
    << <<>>,
       <<"<b>PERSONALIZED WORKOUT AND DIET PLAN</b>">>,
       <<>>,
       <<"<b>Name:</b> ", IF name # "" THEN name ELSE "AI Fitness Planner">>,
       <<>>,
       <<"<b>PROFILE OVERVIEW</b>">>,
       <<>>,
       <<"This fitness plan is designed for a ", ToString(a), "-year-old ",
         Lower(g), " student with a BMI of ", FormatFloat(b), " (", cat, "). ">>,
       <<"The primary fitness goal is ", Lower(gl), ", focusing on ",
         workout_focus(gl), ". ">>,
       <<"The program is suitable for individuals using ", equipment_text(equip),
         " and following a ", Lower(dt), " diet within a ", Lower(bud),
         " budget.">>,
       <<"The recommended daily calorie intake is around ", ToString(cal),
         " kcal for sustainable results.">>,
       <<>>,
       <<"<b>WEEKLY WORKOUT PLAN</b>">>,
       <<"Monday - Full Body Strength:">>,
       <<"Push-ups 3x12, Squats 3x15, Plank 3x30 seconds.">>,
       <<"Tuesday - Cardio & Core:">>,
       <<"Jogging or brisk walking for 30 minutes, Mountain climbers 3x15, Leg raises 3x12.">>,
       <<"Wednesday - Upper Body:">>,
       <<"Dumbbell curls 3x12, Shoulder press 3x10, Triceps dips 3x12.">>,
       <<"Thursday - Active Recovery:">>,
       <<"Yoga and stretching for 30 minutes with breathing exercises.">>,
       <<"Friday - Lower Body:">>,
       <<"Lunges 3x10 per leg, Squats 3x15, Calf raises 3x20.">>,
       <<"Saturday - Cardio + Abs:">>,
       <<"Skipping or cycling 25 minutes, Crunches 3x15, Plank 3x40 seconds.">>,
       <<"Sunday - Rest or light walking.">>,
       <<>>,
       <<DietHeader>>,
       <<"Diet strategy: ", diet_focus(gl), ".">>,
       <<>>,
       <<"<i>Early Morning:</i> Warm water with lemon and 5 soaked almonds.  ">>,
       <<"<i>Breakfast:</i> Vegetable oats or idli with sambar and ",
         BreakfastProtein(dt), ".  ">>,
       <<"<i>Mid-Morning:</i> One seasonal fruit such as apple or banana.  ">>,
       <<"<i>Lunch:</i> Brown rice or chapatis, dal or ", LunchProtein(dt),
         ", mixed vegetable sabzi, curd.  ">>,
       <<"<i>Evening Snack:</i> Sprouts chaat or roasted peanuts.  ">>,
       <<"<i>Dinner:</i> Chapatis with vegetable curry and ", DinnerProtein(dt),
         ".">>,
       <<>>,
       <<HydrationHeader>>,
       <<"Drink at least 2.5-3 liters of water daily.">>,
       <<"Sleep 7-8 hours for recovery.">>,
       <<"Avoid junk food and sugary drinks.">>,
       <<"Maintain consistency and track progress weekly.">>,
       <<>>,
       <<"<b>FINAL ADVICE</b>">>,
       <<"This plan is student-friendly, affordable, and safe. ">>,
       <<"Follow it consistently for 8-12 weeks to improve fitness, stamina, and overall health.">>,
       <<>> >>

\* return plan.strip()
generate_plan(name, a, g, b, cat, gl, dt, bud, equip, cal) ==
    Strip(JoinLines(PlanLines(name, a, g, b, cat, gl, dt, bud, equip, cal)))

----------------------------------------------------------------------------
(* The script body, lines 110-205: one run renders one page *)

\* variant: a key that is not the label of the selectbox option
calories_map_misspelt ==
    ("Weight Loss" :> 1800) @@ ("Maintain" :> 2200) @@ ("Muscle Gain" :> 2600)

\* calories_map, lines 141-145

calories_map ==
    ("Weight Loss" :> 1800) @@ ("Maintain Fitness" :> 2200) @@ ("Muscle Gain" :> 2600)

\* exercise_images, lines 176-181: (name, file in the Images directory)
exercise_images ==
    << <<"Push-ups", "pushup.jpg">>,
       <<"Squats", "Squats.jpg">>,
       <<"Plank", "Plank.jpg">>,
       <<"Dumbbell Curls", "DumbbellCurls.jpg">> >>

ImageFiles == {exercise_images[i][2] : i \in DOMAIN exercise_images}

\* variant: the projected weights clamped at the form's minimum weight
Floor(x) == IF x < MinWeight * 10 THEN MinWeight * 10 ELSE x

progress_clamped(w) ==
    ("Week" :> <<"Week 1", "Week 2", "Week 3", "Week 4">>)
    @@ ("Weight (kg)" :> <<Floor(w * 10), Floor(w * 10 - 5), Floor(w * 10 - 10),
                           Floor(w * 10 - 15)>>)

\* the progress DataFrame, lines 191-194, weights in tenths of a kilogram
progress(w) ==
    ("Week" :> <<"Week 1", "Week 2", "Week 3", "Week 4">>)
    @@ ("Weight (kg)" :> <<w * 10, w * 10 - 5, w * 10 - 10, w * 10 - 15>>)

\* the widget values a run reads, as one record
Form == [planner_name |-> planner_name, age |-> age, gender |-> gender,
         height |-> height, weight |-> weight, goal |-> goal,
         diet_type |-> diet_type, budget |-> budget, equipment |-> equipment]

\* the defaults of the widgets, lines 114-130: an empty name, the value
\* argument of each number_input, the first option of each selectbox, no
\* equipment
DefaultForm ==
    [planner_name |-> "", age |-> DefaultAge, gender |-> Genders[1],
     height |-> DefaultHeight, weight |-> DefaultWeight, goal |-> Goals[1],
     diet_type |-> DietTypes[1], budget |-> Budgets[1], equipment |-> <<>>]

\* variant: the handler runs in every run
ButtonAlways(ev) == TRUE

\* st.button returns True only in the run its click triggered, line 152

Button(ev) == ev = "generate"

\* the plan of lines 153-157 for the widget values f
PlanOf(f) ==
    LET b == calculate_bmi(f.weight, f.height)
    IN  generate_plan(f.planner_name, f.age, f.gender, b, bmi_category(b),
                      f.goal, f.diet_type, f.budget, f.equipment,
                      calories_map[f.goal])

\* st.session_state["plan"] = plan, line 158
Store(ss, plan) ==
    [k \in DOMAIN ss \cup {"plan"} |-> IF k = "plan" THEN plan ELSE ss[k]]

\* variant: the test looks for another key
HasPlanWrongKey(ss) == "pdf" \in DOMAIN ss

\* "plan" in st.session_state, line 163

HasPlan(ss) == "plan" \in DOMAIN ss

\* the run stops at the first exception: ZeroDivisionError in line 133,
\* KeyError in line 146
Raised(f) ==
    IF DivisionByZero(f.height) THEN "ZeroDivisionError"
    ELSE IF f.goal \notin DOMAIN calories_map THEN "KeyError"
    ELSE "none"

\* st.session_state after the run, lines 152-158
StateAfter(ev, f, ss) ==
    IF Raised(f) = "none" /\ Button(ev) THEN Store(ss, PlanOf(f)) ELSE ss

\* lines 132-138
BmiElements(f) ==
    LET b == calculate_bmi(f.weight, f.height)
    IN  << [kind |-> "subheader", body |-> "BMI Analysis"],
           [kind |-> "metric", label |-> "BMI", value |-> b],
           [kind |-> "info", category |-> bmi_category(b)] >>

\* lines 146-149
CalorieElements(f) ==
    << [kind |-> "subheader", body |-> "Daily Calorie Recommendation"],
       [kind |-> "write", daily_calories |-> calories_map[f.goal]] >>

\* lines 152-160; ss is the session state after line 158
PlanElements(ev, ss) ==
    IF Button(ev)
    THEN << [kind |-> "markdown", body |-> ss["plan"]],
            [kind |-> "success", body |-> "Plan generated successfully!"] >>
    ELSE <<>>

\* lines 163-170
DownloadElements(ss) ==
    IF HasPlan(ss)
    THEN << [kind |-> "download_button", label |-> "Download as PDF",
             data |-> generate_pdf(ss["plan"]),
             file_name |-> "Workout_Diet_Plan.pdf",
             mime |-> "application/pdf"] >>
    ELSE <<>>

\* variant: the image rendered without the test of line 185
RECURSIVE ImageElementsUnchecked(_, _)
ImageElementsUnchecked(i, ex) ==
    IF i > Len(exercise_images) THEN <<>>
    ELSE << [kind |-> "image", col |-> i, path |-> exercise_images[i][2],
             caption |-> exercise_images[i][1]] >>
         \o ImageElementsUnchecked(i + 1, ex)

\* lines 183-186: the columns whose image exists, in order
RECURSIVE ImageElementsFrom(_, _)
ImageElementsFrom(i, ex) ==
    IF i > Len(exercise_images) THEN <<>>
    ELSE (IF exercise_images[i][2] \in ex
          THEN << [kind |-> "image", col |-> i, path |-> exercise_images[i][2],
                   caption |-> exercise_images[i][1]] >>
          ELSE <<>>)
         \o ImageElementsFrom(i + 1, ex)

\* lines 173-186
DemoElements(ex) ==
    << [kind |-> "subheader", body |-> "Exercise Demonstrations"] >>
    \o ImageElementsFrom(1, ex)

\* lines 189-201
ProgressElements(f) ==
    << [kind |-> "subheader", body |-> "Progress Tracking"],
       [kind |-> "pyplot", data |-> progress(f.weight), xlabel |-> "Week",
        ylabel |-> "Weight (kg)", title |-> "Expected Weight Progress"] >>

\* lines 204-205
FooterElements ==
    << [kind |-> "markdown", body |-> <<"---">>],
       [kind |-> "caption",
        body |-> "Perfect for Students | Budget Friendly | Simple & Effective"] >>

\* the page of a run triggered by ev that reads the widget values f, with
\* ss the session state after the run and ex the image files present
Elements(ev, f, ss, ex) ==
    << [kind |-> "title", body |-> "Personalized Workout & Diet Planner"] >>
    \o (IF Raised(f) = "ZeroDivisionError"
        THEN << [kind |-> "exception", type |-> "ZeroDivisionError"] >>
        ELSE BmiElements(f)
             \o (IF Raised(f) = "KeyError"
                 THEN << [kind |-> "exception", type |-> "KeyError"] >>
                 ELSE CalorieElements(f) \o PlanElements(ev, ss)
                      \o DownloadElements(ss) \o DemoElements(ex)
                      \o ProgressElements(f) \o FooterElements))

\* one execution of the script: triggered by ev, reading the widget values f,
\* starting from the session state ss
Run(ev, f, ss) ==
    /\ planner_name' = f.planner_name
    /\ age' = f.age
    /\ gender' = f.gender
    /\ height' = f.height
    /\ weight' = f.weight
    /\ goal' = f.goal
    /\ diet_type' = f.diet_type
    /\ budget' = f.budget
    /\ equipment' = f.equipment
    /\ session_state' = StateAfter(ev, f, ss)
    /\ page' = Elements(ev, f, StateAfter(ev, f, ss), exists)
    /\ event' = ev
    /\ runs' = runs + 1
    /\ UNCHANGED <<exists, call, ret>>

----------------------------------------------------------------------------
(* User interactions: each one triggers one run of the script *)

EmptyState == [k \in {} |-> <<>>]

NoCall == [fn |-> "none"]
Pending == [done |-> FALSE]

\* the values the sampled session specification types into the widgets: the
\* ends and the default of each number_input, and three names, one of them
\* the text of a food substitution
AgeSamples == {a \in AgeValues : a \in {MinAge, DefaultAge, MaxAge}}
HeightSamples == {h \in HeightValues : h \in {MinHeight, DefaultHeight, MaxHeight}}
WeightSamples == {w \in WeightValues : w \in {MinWeight, DefaultWeight, MaxWeight}}
NameSamples == {"", "Asha", "egg curry"}

\* the elements of a kind on the page
Of(kind) == {page[i] : i \in {j \in DOMAIN page : page[j].kind = kind}}

\* the first run of a session: default widget values, empty session state,
\* every image file in place
Init ==
    /\ planner_name = DefaultForm.planner_name
    /\ age = DefaultForm.age
    /\ gender = DefaultForm.gender
    /\ height = DefaultForm.height
    /\ weight = DefaultForm.weight
    /\ goal = DefaultForm.goal
    /\ diet_type = DefaultForm.diet_type
    /\ budget = DefaultForm.budget
    /\ equipment = DefaultForm.equipment
    /\ session_state = StateAfter("start", DefaultForm, EmptyState)
    /\ exists = ImageFiles
    /\ page = Elements("start", DefaultForm, session_state, exists)
    /\ event = "start"
    /\ runs = 1
    /\ call = NoCall
    /\ ret = Pending

SetName(n) ==
    /\ n # planner_name
    /\ Run("input", [Form EXCEPT !.planner_name = n], session_state)

SetAge(a) ==
    /\ a \in AgeValues /\ a # age
    /\ Run("input", [Form EXCEPT !.age = a], session_state)

SetGender(g) ==
    /\ g \in Range(Genders) /\ g # gender
    /\ Run("input", [Form EXCEPT !.gender = g], session_state)

SetHeight(h) ==
    /\ h \in HeightValues /\ h # height
    /\ Run("input", [Form EXCEPT !.height = h], session_state)

SetWeight(w) ==
    /\ w \in WeightValues /\ w # weight
    /\ Run("input", [Form EXCEPT !.weight = w], session_state)

SetGoal(g) ==
    /\ g \in Range(Goals) /\ g # goal
    /\ Run("input", [Form EXCEPT !.goal = g], session_state)

SetDietType(d) ==
    /\ d \in Range(DietTypes) /\ d # diet_type
    /\ Run("input", [Form EXCEPT !.diet_type = d], session_state)

SetBudget(b) ==
    /\ b \in Range(Budgets) /\ b # budget
    /\ Run("input", [Form EXCEPT !.budget = b], session_state)

\* the multiselect returns the chosen options in the order they were chosen
SelectEquipment(e) ==
    /\ e \in Range(EquipmentOptions) /\ e \notin Range(equipment)
    /\ Len(equipment) < MaxEquip
    /\ Run("input", [Form EXCEPT !.equipment = Append(equipment, e)], session_state)

DeselectEquipment(e) ==
    /\ e \in Range(equipment)
    /\ Run("input",
           [Form EXCEPT !.equipment = SelectSeq(equipment, LAMBDA x : x # e)],
           session_state)

\* a click on the generate button, line 152
Generate == Run("generate", Form, session_state)

\* a click on the download button, offered by lines 165-170
Download ==
    /\ Of("download_button") # {}
    /\ Run("download", Form, session_state)

\* the session ends and a new one starts
NewSession == Run("start", DefaultForm, EmptyState)

\* the session specification explores MaxRuns script runs
More == runs < MaxRuns

Next ==
    \/ \E n \in NameSamples : More /\ SetName(n)
    \/ \E a \in AgeSamples : More /\ SetAge(a)
    \/ \E g \in Range(Genders) : More /\ SetGender(g)
    \/ \E h \in HeightSamples : More /\ SetHeight(h)
    \/ \E w \in WeightSamples : More /\ SetWeight(w)
    \/ \E g \in Range(Goals) : More /\ SetGoal(g)
    \/ \E d \in Range(DietTypes) : More /\ SetDietType(d)
    \/ \E b \in Range(Budgets) : More /\ SetBudget(b)
    \/ \E e \in Range(EquipmentOptions) : More /\ SelectEquipment(e)
    \/ \E e \in Range(EquipmentOptions) : More /\ DeselectEquipment(e)
    \/ More /\ Generate
    \/ More /\ Download
    \/ More /\ NewSession

Spec == Init /\ [][Next]_vars

\* every height and weight the form can deliver, the other widgets at rest
MoreForm == runs < MaxFormRuns

NextForm ==
    \/ \E h \in HeightValues : MoreForm /\ SetHeight(h)
    \/ \E w \in WeightValues : MoreForm /\ SetWeight(w)

SpecForm == Init /\ [][NextForm]_vars

\* any set of image files may be missing from the Images directory
InitImages ==
    /\ planner_name = DefaultForm.planner_name
    /\ age = DefaultForm.age
    /\ gender = DefaultForm.gender
    /\ height = DefaultForm.height
    /\ weight = DefaultForm.weight
    /\ goal = DefaultForm.goal
    /\ diet_type = DefaultForm.diet_type
    /\ budget = DefaultForm.budget
    /\ equipment = DefaultForm.equipment
    /\ session_state = StateAfter("start", DefaultForm, EmptyState)
    /\ exists \in SUBSET ImageFiles
    /\ page = Elements("start", DefaultForm, session_state, exists)
    /\ event = "start"
    /\ runs = 1
    /\ call = NoCall
    /\ ret = Pending

NextImages ==
    \/ \E g \in Range(Goals) : More /\ SetGoal(g)
    \/ \E d \in Range(DietTypes) : More /\ SetDietType(d)
    \/ More /\ Generate
    \/ More /\ Download

SpecImages == InitImages /\ [][NextImages]_vars

----------------------------------------------------------------------------
(* The functions on their own: one call, then its return *)

Alphabet == {"a", "b", NL}
Texts == UNION {[1..n -> Alphabet] : n \in 0..MaxLen}

\* the equipment lists of at most MaxEquip options, in any order of choice
EquipmentLists ==
    {e \in UNION {[1..n -> Range(EquipmentOptions)] : n \in 0..MaxEquip} :
       \A i, j \in DOMAIN e : i # j => e[i] # e[j]}

\* profiles of the default age, height and weight
Profiles ==
    {[DefaultForm EXCEPT !.planner_name = n, !.gender = g, !.goal = gl,
                         !.diet_type = d, !.budget = b, !.equipment = e] :
       n \in NameSamples, g \in Range(Genders), gl \in Range(Goals),
       d \in Range(DietTypes), b \in Range(Budgets), e \in EquipmentLists}

Calls ==
    {[fn |-> "bmi_category", bmi |-> b] : b \in 0..(MaxBmi * 100)}
    \cup {[fn |-> "calculate_bmi", weight |-> w, height_cm |-> h] :
            w \in WeightValues, h \in HeightValues}
    \cup {[fn |-> "generate_pdf", text |-> t] : t \in Texts}
    \cup {[fn |-> "generate_plan", f |-> f] : f \in Profiles}

InitCall ==
    /\ planner_name = DefaultForm.planner_name
    /\ age = DefaultForm.age
    /\ gender = DefaultForm.gender
    /\ height = DefaultForm.height
    /\ weight = DefaultForm.weight
    /\ goal = DefaultForm.goal
    /\ diet_type = DefaultForm.diet_type
    /\ budget = DefaultForm.budget
    /\ equipment = DefaultForm.equipment
    /\ session_state = EmptyState
    /\ exists = ImageFiles
    /\ page = <<>>
    /\ event = "none"
    /\ runs = 0
    /\ call \in Calls
    /\ ret = Pending

Return(v) ==
    /\ ~ret.done
    /\ ret' = [done |-> TRUE, value |-> v]
    /\ UNCHANGED <<planner_name, age, gender, height, weight, goal, diet_type,
                   budget, equipment, session_state, exists, page, event, runs,
                   call>>

ReturnBmiCategory ==
    /\ call.fn = "bmi_category"
    /\ Return(bmi_category(call.bmi))

ReturnCalculateBmi ==
    /\ call.fn = "calculate_bmi"
    /\ Return(calculate_bmi(call.weight, call.height_cm))

ReturnGeneratePdf ==
    /\ call.fn = "generate_pdf"
    /\ Return(generate_pdf(call.text))

ReturnGeneratePlan ==
    /\ call.fn = "generate_plan"
    /\ Return(PlanOf(call.f))

NextCall ==
    \/ ReturnBmiCategory
    \/ ReturnCalculateBmi
    \/ ReturnGeneratePdf
    \/ ReturnGeneratePlan

SpecCall == InitCall /\ [][NextCall]_vars

----------------------------------------------------------------------------
(* Properties *)

Categories == {"Underweight", "Normal", "Overweight", "Obese"}

Returned(fn) == call.fn = fn /\ ret.done

\* the session holds a plan
StoresPlan == "plan" \in DOMAIN session_state

\* the texts of the paragraph blocks of a document, in order
Texts_of(pdf) == [i \in 1..Len(pdf.content) |-> pdf.content[i].text]

\* segments joined again by the blank-line delimiter
RECURSIVE JoinBlank(_)
JoinBlank(segs) ==
    IF Len(segs) = 0 THEN <<>>
    ELSE IF Len(segs) = 1 THEN segs[1]
    ELSE segs[1] \o <<NL, NL>> \o JoinBlank(Tail(segs))

\* a text holds the blank-line delimiter
HasBlank(text) ==
    \E k \in 1..(Len(text) - 1) : text[k] = NL /\ text[k + 1] = NL

\* the tokens of a plan from the diet header up to the hydration header
DietSection(plan) ==
    LET from == CHOOSE i \in DOMAIN plan : plan[i] = DietHeader
        to == CHOOSE i \in DOMAIN plan : plan[i] = HydrationHeader
    IN  SubSeq(plan, from, to - 1)

AnimalStrings == {"boiled eggs", "grilled chicken", "egg curry"}
PlantStrings == {"paneer or tofu", "paneer curry", "paneer bhurji"}

\* C1: bmi_category returns exactly one category for every two-decimal BMI:
\* Underweight iff b < 18.5, Normal iff 18.5 <= b < 25, Overweight iff
\* 25 <= b < 30, Obese iff b >= 30, with the six boundary values as stated.
C1_CategoryBoundaries ==
    Returned("bmi_category") =>
        LET b == call.bmi
            c == ret.value
        IN  /\ c \in Categories
            /\ (c = "Underweight") <=> (b < 1850)
            /\ (c = "Normal") <=> (1850 <= b /\ b < 2500)
            /\ (c = "Overweight") <=> (2500 <= b /\ b < 3000)
            /\ (c = "Obese") <=> (b >= 3000)
            /\ (b = 1849 => c = "Underweight")
            /\ (b = 1850 => c = "Normal")
            /\ (b = 2499 => c = "Normal")
            /\ (b = 2500 => c = "Overweight")
            /\ (b = 2999 => c = "Overweight")
            /\ (b = 3000 => c = "Obese")

C1_Witness ==
    Returned("bmi_category") /\ call.bmi = 1850 /\ ret.value = "Normal"

\* C2: calculate_bmi is weight / (height_cm/100)^2 rounded to the nearest
\* hundredth, never smaller for a larger weight at the same height and never
\* larger for a larger height at the same weight.
C2_BmiMonotone ==
    Returned("calculate_bmi") =>
        LET w == call.weight
            h == call.height_cm
            v == ret.value
            d == v * h * h - w * 1000000
        IN  /\ 2 * d <= h * h /\ -2 * d <= h * h
            /\ \A w2 \in WeightValues : w < w2 => v <= calculate_bmi(w2, h)
            /\ \A w1 \in WeightValues : w1 < w => calculate_bmi(w1, h) <= v
            /\ \A h2 \in HeightValues : h < h2 => v >= calculate_bmi(w, h2)
            /\ \A h1 \in HeightValues : h1 < h => calculate_bmi(w, h1) >= v

C2_Witness ==
    /\ Returned("calculate_bmi")
    /\ call.weight = 40 /\ call.height_cm = 160 /\ ret.value = 1562

\* C3: in every run the height read from the form is greater than zero, so
\* no division by zero happens, no exception is shown, and the page shows
\* the BMI of the current weight and height and one of the four categories.
C3_NoDivisionError ==
    /\ height > 0
    /\ ~DivisionByZero(height)
    /\ height \in MinHeight..MaxHeight /\ weight \in MinWeight..MaxWeight
    /\ Of("exception") = {}
    /\ \E m \in Of("metric") : m.value = calculate_bmi(weight, height)
    /\ \E i \in Of("info") : i.category \in Categories

C3_Witness ==
    /\ height = MinHeight /\ weight = MaxWeight /\ event = "input"
    /\ \E m \in Of("metric") : m.value = 10417
    /\ \E i \in Of("info") : i.category = "Obese"

\* C4: every run shows the daily calories of the current goal, 1800 for
\* Weight Loss, 2200 for Maintain Fitness and 2600 for Muscle Gain, whatever
\* the other widgets hold, and the lookup never fails.
C4_CaloriesByGoal ==
    /\ Of("exception") = {}
    /\ Cardinality(Of("write")) = 1
    /\ \A e \in Of("write") :
          /\ goal = "Weight Loss" => e.daily_calories = 1800
          /\ goal = "Maintain Fitness" => e.daily_calories = 2200
          /\ goal = "Muscle Gain" => e.daily_calories = 2600
          /\ e.daily_calories \in {1800, 2200, 2600}

C4_Witness ==
    /\ goal = "Muscle Gain" /\ weight = MaxWeight /\ diet_type = "Non-Vegetarian"
    /\ \E e \in Of("write") : e.daily_calories = 2600

\* C5: the diet section of the plan of a Vegetarian profile holds the three
\* plant-based substitution strings and none of the egg- or meat-based ones;
\* the diet section of a Non-Vegetarian profile holds the three egg- and
\* meat-based strings; for every goal, budget, equipment list and name.
C5_DietSubstitution ==
    Returned("generate_plan") =>
        LET d == Range(DietSection(ret.value))
        IN  /\ call.f.diet_type = "Vegetarian" =>
                  d \cap AnimalStrings = {} /\ PlantStrings \subseteq d
            /\ call.f.diet_type = "Non-Vegetarian" => AnimalStrings \subseteq d

C5_Witness ==
    /\ Returned("generate_plan")
    /\ call.f.diet_type = "Vegetarian" /\ call.f.planner_name = "egg curry"
    /\ call.f.goal = "Muscle Gain" /\ Len(call.f.equipment) = 2
    /\ "egg curry" \in Range(ret.value)
    /\ "paneer bhurji" \in Range(DietSection(ret.value))

\* C6: every run plots exactly 4 points labelled Week 1 to Week 4 whose
\* weights are the current weight w, w - 0.5, w - 1.0 and w - 1.5, with no
\* clamping at any floor.
C6_ProgressSeries ==
    /\ Cardinality(Of("pyplot")) = 1
    /\ \A e \in Of("pyplot") :
          LET weeks == e.data["Week"]
              kg == e.data["Weight (kg)"]
          IN  /\ weeks = <<"Week 1", "Week 2", "Week 3", "Week 4">>
              /\ Len(kg) = 4
              /\ kg[1] = weight * 10
              /\ \A i \in 2..4 : kg[i] = kg[i - 1] - 5
              /\ kg = <<weight * 10, weight * 10 - 5, weight * 10 - 10,
                        weight * 10 - 15>>
              /\ (weight = 65 => kg = <<650, 645, 640, 635>>)

C6_Witness ==
    /\ weight = MinWeight /\ event = "input"
    /\ \E e \in Of("pyplot") : e.data["Weight (kg)"] = <<300, 295, 290, 285>>

\* the entries a run shows in column i of the exercise demonstrations
ColumnEntries(i) == {e \in Of("image") \cup Of("placeholder") : e.col = i}

C8_PdfParagraphs ==
    Returned("generate_pdf") =>
        LET t == call.text
            ps == Texts_of(ret.value)
        IN  /\ Len(ps) >= 1
            /\ JoinBlank(ps) = t
            /\ \A i \in DOMAIN ps : ~HasBlank(ps[i])
            /\ \A i \in DOMAIN ps : ret.value.content[i].style = "Normal"
            /\ (t = <<>> => ps = << <<>> >>)
            /\ (~HasBlank(t) => ps = <<t>>)
            /\ ret.value.pos = 0

C8_Witness ==
    /\ Returned("generate_pdf")
    /\ call.text = <<"a", NL, NL, NL, "b">>
    /\ Texts_of(ret.value) = << <<"a">>, <<NL, "b">> >>
    /\ ret.value.pos = 0

\* what a state shows of the stored plan
PlanConsistent ==
    /\ event = "start" => ~StoresPlan
    /\ (Of("download_button") # {}) <=> StoresPlan
    /\ Cardinality(Of("download_button")) <= 1
    /\ \A e \in Of("download_button") :
          /\ JoinBlank(Texts_of(e.data)) = session_state["plan"]
          /\ e.data.pos = 0
    /\ event = "generate" =>
          /\ StoresPlan
          /\ session_state["plan"] = PlanOf(Form)
          /\ [kind |-> "markdown", body |-> session_state["plan"]] \in Of("markdown")

\* how the stored plan changes from one run to the next
PlanStep ==
    /\ (~StoresPlan /\ StoresPlan') => event' = "generate"
    /\ (StoresPlan /\ event' # "start") => StoresPlan'
    /\ (StoresPlan /\ StoresPlan'
          /\ session_state'["plan"] # session_state["plan"]) => event' = "generate"

\* C9: a session holds no plan until the first generate; a generate stores
\* the plan rendered from the form values of its run; a stored plan stays
\* until a generate overwrites it or the session ends; the download is
\* offered exactly in the runs whose session holds a plan, and the PDF is
\* built from the stored plan.
C9_PlanLifecycle == [](PlanConsistent) /\ [][PlanStep]_vars

C9_Witness ==
    /\ event = "download" /\ StoresPlan
    /\ Of("download_button") # {} /\ Of("success") = {}
    /\ runs >= 3

\* the values the page shows are those of the current widget values
PageCurrent ==
    /\ \E m \in Of("metric") : m.value = calculate_bmi(weight, height)
    /\ \E i \in Of("info") :
          i.category = bmi_category(calculate_bmi(weight, height))
    /\ \E e \in Of("write") : e.daily_calories = calories_map[goal]
    /\ \E e \in Of("pyplot") : e.data["Weight (kg)"][1] = weight * 10

\* C10: a run without a click on generate shows the BMI, category, calories
\* and progress of the new widget values and leaves the stored plan as it
\* was; a run with the click stores the plan of its own widget values.  So
\* the stored plan is always the one of the most recent generate.
C10_PlanFrame ==
    [][/\ PageCurrent'
       /\ event' \in {"input", "download"} => session_state' = session_state
       /\ event' = "generate" => session_state' = Store(session_state, PlanOf(Form'))
      ]_vars

\* the BMI on the page is not the BMI written in the plan offered for download
C10_Witness ==
    /\ StoresPlan /\ event = "input"
    /\ Of("download_button") # {}
    /\ \E m \in Of("metric") :
          /\ m.value = calculate_bmi(weight, height)
          /\ FormatFloat(m.value) \notin Range(session_state["plan"])

====
